---- MODULE Spec2Model ----
(***************************************************************************)
(* Model of dila2sql/importer/process_archive.py: the import orchestration *)
(* core (chunking of the archive, the chunk walker, the entry classifier,   *)
(* the sequential executor, the process-pool dispatcher, the statistics     *)
(* merger and the final suppression pass).                                  *)
(*                                                                          *)
(* Python sequences are 0-based; the model keeps Python's index VALUES      *)
(* (chunk bounds, archive indexes) and adds 1 only where a TLA+ sequence is *)
(* indexed.                                                                 *)
(***************************************************************************)
EXTENDS Integers, Sequences, FiniteSets, TLC

\* ------------------------------------------------------------------ bounds

\* Longest archive of arbitrary content.
MaxTotal == 3
\* Largest CHUNK_SIZE tried on the archives of arbitrary content.
MaxChunkSize == 2
\* Largest PROCESS_XML_JOBS_BATCH_SIZE tried.
MaxBatchSize == 2
\* Pool size of ProcessPoolExecutor(max_workers=None): the machine's cpu count.
CpuCount == 2
\* PROCESS_XML_JOBS_BATCH_SIZE of the fair runs that use the pool.
FairBatchSize == 1

\* ------------------------------------------------------- values and helpers

\* Python's None, where a string is expected.
None == "None"

\* Python's None, where a job tuple is expected.
NoJob == [nojob |-> TRUE]

\* Python's None in the list of line 40, which holds each job by the archive
\* index (>= 0) of the entry it was made from.
NoJobRef == -1

\* DBMeta 'base' value, or its default (line 19).
base == "LEGI"

\* str.lower() on the dataset base names.
Lower(s) ==
  CASE s = "LEGI" -> "legi"
    [] s = "JORF" -> "jorf"
    [] s = "KALI" -> "kali"
    [] OTHER -> s

Min(a, b) == IF a < b THEN a ELSE b

\* dict.get(key, 0): what a defaultdict(zero) reads for a key.
Get(d, k) == IF k \in DOMAIN d THEN d[k] ELSE 0

\* {}: the empty dict.
EmptyDict == [k \in {} |-> 0]

\* d[key] += n on a defaultdict whose default is 0.
DictAdd(d, k, n) ==
  IF k \in DOMAIN d THEN [d EXCEPT ![k] = @ + n] ELSE d @@ (k :> n)

\* ------------------------------------------------------------ the archive

\* bytes -> str of bytes.decode('ascii'), byte by byte, on the bytes used here.
AsciiChar(b) ==
  CASE b = 10 -> "\n"
    [] b = 32 -> " "
    [] b = 65 -> "A"
    [] b = 66 -> "B"
    [] b = 67 -> "C"

decode_ascii(bytes) == [i \in 1..Len(bytes) |-> AsciiChar(bytes[i])]

IsSpace(c) == c \in {" ", "\n"}

\* str.split(): the maximal runs of non-whitespace characters, in order.
\* cur is the run being read, out the runs already closed.
RECURSIVE SplitFrom(_, _, _, _)
SplitFrom(s, i, cur, out) ==
  IF i > Len(s)
  THEN IF cur = <<>> THEN out ELSE Append(out, cur)
  ELSE IF IsSpace(s[i])
       THEN SplitFrom(s, i + 1, <<>>, IF cur = <<>> THEN out ELSE Append(out, cur))
       ELSE SplitFrom(s, i + 1, Append(cur, s[i]), out)

split(s) == SplitFrom(s, 1, <<>>, <<>>)

\* The path of a document of the LEGI base, as path.split('/') gives it: the
\* dated top folder, then legi/global/<category>/..., the file name last.
DocPath(category, cid, file) ==
  <<"20200101-000000", "legi", "global", category, "code_en_vigueur", "LEGI",
    "TEXT", "00", "00", "06", "07", "05", cid, "article", file>>

\* The path of a file of the LEGI base that is no document of a known table.
OtherPath(category, cid, file) ==
  <<"20200101-000000", "legi", "global", category, "code_en_vigueur", "LEGI",
    "TEXT", "00", "00", "06", "07", "05", cid, "autre", file>>

\* The archive entries the model draws from: pathname (as its '/'-split parts:
\* a path ending in '/' splits to a last part ""), mtime and payload blocks.
Entry(e) ==
  CASE e = "dir"  -> [pathname |-> <<"20200101-000000", "legi", "">>,
                      mtime |-> 0, blocks |-> <<>>]
    [] e = "supp" -> [pathname |-> <<"20200101-000000", "liste_suppression_legi.dat">>,
                      mtime |-> 1, blocks |-> <<65, 10, 66, 10>>]
    [] e = "unk"  -> [pathname |-> <<"20200101-000000", "cnil", "global", "f.xml">>,
                      mtime |-> 1, blocks |-> <<67>>]
    [] e = "cat"  -> [pathname |-> DocPath("autre", "LEGITEXT1", "LEGIARTI9.xml"),
                      mtime |-> 1, blocks |-> <<67>>]
    [] e = "doc1" -> [pathname |-> DocPath("code_et_TNC_en_vigueur", "LEGITEXT1", "LEGIARTI1.xml"),
                      mtime |-> 1, blocks |-> <<65>>]
    [] e = "doc2" -> [pathname |-> DocPath("code_et_TNC_en_vigueur", "LEGITEXT1", "LEGIARTI2.xml"),
                      mtime |-> 2, blocks |-> <<66>>]
    [] e = "docX" -> [pathname |-> DocPath("code_et_TNC_non_vigueur", "LEGITEXT2", "LEGIARTI3.xml"),
                      mtime |-> 3, blocks |-> <<67>>]
    [] e = "notab" -> [pathname |-> OtherPath("code_et_TNC_en_vigueur", "LEGITEXT1", "LEGIARTI4.xml"),
                       mtime |-> 1, blocks |-> <<65>>]
    [] e = "short" -> [pathname |-> <<"20200101-000000", "legi", "global",
                                     "code_et_TNC_en_vigueur", "readme.txt">>,
                       mtime |-> 1, blocks |-> <<65>>]

EntryIds == {"dir", "supp", "unk", "cat", "doc1", "doc2", "docX", "notab", "short"}

\* str.startswith('code_et_TNC_') on the category names that occur.
StartsWithCodeEtTNC(s) == s \in {"code_et_TNC_en_vigueur", "code_et_TNC_non_vigueur"}

\* s[:-4] on the file names that occur: the name without its 4-character suffix.
StripSuffix4(s) ==
  CASE s = "LEGIARTI1.xml" -> "LEGIARTI1"
    [] s = "LEGIARTI2.xml" -> "LEGIARTI2"
    [] s = "LEGIARTI3.xml" -> "LEGIARTI3"
    [] s = "LEGIARTI4.xml" -> "LEGIARTI4"
    [] s = "LEGIARTI9.xml" -> "LEGIARTI9"
    [] s = "readme.txt" -> "readme"
    [] s = "f.xml" -> "f"
    [] OTHER -> ""

\* seq[n:] for a sequence.
DropFirst(s, n) == SubSeq(s, n + 1, Len(s))

\* importer/utils.get_table: the table of a path, here the segment that names
\* the kind of document (None when the path names no table).
get_table(parts) ==
  IF Len(parts) >= 14 /\ parts[Len(parts) - 1] \in {"article", "section_ta", "texte"}
  THEN parts[Len(parts) - 1] ELSE None

\* importer/utils.get_dossier: the dossier key of a path.
get_dossier(parts, b) == IF Len(parts) >= 4 THEN parts[4] ELSE None

\* The per-document processor: (counts by kind, skipped) of one job, or raised.
\* skipped is Python's bool, added as 0 or 1.
process_xml(job) ==
  CASE job.xml_blob = <<65>> -> [raised |-> FALSE, counts |-> ("add" :> 1), skipped |-> 0]
    [] job.xml_blob = <<66>> -> [raised |-> FALSE, counts |-> ("add" :> 2) @@ ("update" :> 1),
                                 skipped |-> 1]
    [] OTHER -> [raised |-> TRUE, counts |-> EmptyDict, skipped |-> 0]

\* 'liste_suppression_' + base.lower() + '.dat'
SuppressionListName(b) ==
  CASE Lower(b) = "legi" -> "liste_suppression_legi.dat"
    [] Lower(b) = "jorf" -> "liste_suppression_jorf.dat"
    [] Lower(b) = "kali" -> "liste_suppression_kali.dat"

\* The family and category test of lines 101-106, on parts of 3 segments or more.
UnknownFolder(parts) ==
  \/ parts[1] \notin {"legi", "jorf", "kali"}
  \/ (parts[1] = "legi" /\ ~StartsWithCodeEtTNC(parts[3]))
  \/ (parts[1] = "jorf" /\ parts[3] \notin {"article", "section_ta", "texte"})
  \/ (parts[1] = "kali" /\ parts[3] \notin {"article", "section_ta", "texte", "conteneur"})

\* Lines 110-119, once the family test has passed: the job tuple, or the tally
\* under the text identifier when no table is found. src is a history tag (the
\* archive index the job was made from), read by no operation.
JobOrNoTable(e, src, parts, ls, uf) ==
  LET table == get_table(parts)
      dossier == get_dossier(parts, base)
      text_id == StripSuffix4(parts[Len(parts)])
  IN IF base = "LEGI" /\ Len(parts) < 12
     THEN [kind |-> "raise", job |-> NoJob, liste_suppression |-> ls, unknown_folders |-> uf,
           read |-> FALSE]
     ELSE IF table = None
     THEN [kind |-> "none", job |-> NoJob, liste_suppression |-> ls,
           unknown_folders |-> DictAdd(uf, text_id, 1), read |-> FALSE]
     ELSE [kind |-> "job",
           job |-> [xml_blob |-> Entry(e).blocks, mtime |-> Entry(e).mtime, base |-> base,
                    table |-> table, dossier |-> dossier,
                    text_cid |-> IF base = "LEGI" THEN parts[12] ELSE None,
                    text_id |-> text_id, process_links |-> TRUE, src |-> src],
           liste_suppression |-> ls, unknown_folders |-> uf, read |-> TRUE]

\* get_process_xml_job_args_for_entry on archive entry e (found at index src):
\* what it returns (kind "none": None; "job": a job tuple; "raise": an
\* IndexError on a path too short), the two accumulators after the call, and
\* whether it read the entry's payload (entry.get_blocks(), lines 96 and 117).
get_process_xml_job_args_for_entry(e, src, ls, uf) ==
  LET path == Entry(e).pathname
      last == path[Len(path)]
      parts == IF Len(path) >= 2 /\ path[2] = Lower(base) THEN DropFirst(path, 1) ELSE path
  IN IF last = ""
     THEN [kind |-> "none", job |-> NoJob, liste_suppression |-> ls, unknown_folders |-> uf,
           read |-> FALSE]
     ELSE IF last = SuppressionListName(base)
     THEN [kind |-> "none", job |-> NoJob,
           liste_suppression |-> ls \o split(decode_ascii(Entry(e).blocks)),
           unknown_folders |-> uf, read |-> TRUE]
     ELSE IF Len(path) < 2 \/ Len(parts) < 3
     THEN [kind |-> "raise", job |-> NoJob, liste_suppression |-> ls, unknown_folders |-> uf,
           read |-> FALSE]
     ELSE IF UnknownFolder(parts)
     THEN [kind |-> "none", job |-> NoJob, liste_suppression |-> ls,
           unknown_folders |-> DictAdd(uf, parts[3], 1), read |-> FALSE]
     ELSE JobOrNoTable(e, src, parts, ls, uf)

\* ---------------------------------------------------------------- chunking

\* Lines 29-32: the chunk list for n entries; raised is the IndexError of
\* chunks[-1] on an empty list (n < chunk_size).
BuildChunkList(n, chunk_size) ==
  LET chunks_count == n \div chunk_size
      last_chunk_size == n % chunk_size
      full == [i \in 1..chunks_count |-> <<(i - 1) * chunk_size, i * chunk_size>>]
  IN IF chunks_count = 0
     THEN [raised |-> TRUE, chunks |-> <<>>]
     ELSE LET last_idx == full[chunks_count][2]
          IN [raised |-> FALSE,
              chunks |-> IF last_chunk_size > 0
                         THEN Append(full, <<last_idx, last_idx + last_chunk_size>>)
                         ELSE full]

\* utils.consume(iterator, n): advance the stream by n entries, or to its end.
consume(pos, n, len) == Min(pos + n, len)

\* Line 79: the walker's test for leaving its loop.
PastChunkEnd(idx, chunk_end_idx) == idx > chunk_end_idx

\* ------------------------------------------------------------- statistics

\* merge_counts as its caller sees it: counts is a dict, mutated in place;
\* skipped is an int, so 'skipped += sub_skipped' rebinds the function's own
\* name and the caller's skipped stays what it was.
RECURSIVE MergeKeys(_, _, _)
MergeKeys(keys, sub_counts, counts) ==
  IF keys = {} THEN counts
  ELSE LET k == CHOOSE x \in keys : TRUE
       IN MergeKeys(keys \ {k}, sub_counts, DictAdd(counts, k, sub_counts[k]))

merge_counts_overwriting(sub_counts, sub_skipped, counts, skipped) ==
  [counts |-> [k \in DOMAIN counts \cup DOMAIN sub_counts |->
                 IF k \in DOMAIN sub_counts THEN sub_counts[k] ELSE counts[k]],
   skipped |-> skipped]

merge_counts(sub_counts, sub_skipped, counts, skipped) ==
  [counts |-> MergeKeys(DOMAIN sub_counts, sub_counts, counts), skipped |-> skipped]

\* Line 49: whether a chunk's jobs go to the process pool.
UseProcessPoolFromTenBatches(max_processes, njobs, batch_size) ==
  max_processes # 1 /\ njobs >= 10 * batch_size

UseProcessPool(max_processes, njobs, batch_size) ==
  max_processes # 1 /\ njobs > 10 * batch_size

\* Lines 145-148: the slices jobs[i:i + batch_size] for i = 0, batch_size, ...
MakeBatches(jobs, batch_size) ==
  [b \in 1..((Len(jobs) + batch_size - 1) \div batch_size) |->
     SubSeq(jobs, (b - 1) * batch_size + 1, Min(b * batch_size, Len(jobs)))]

\* [a for a in xs if a is not None]
RECURSIVE NotNone(_)
NotNone(xs) ==
  IF xs = <<>> THEN <<>>
  ELSE IF Head(xs) = NoJobRef THEN NotNone(Tail(xs)) ELSE <<Head(xs)>> \o NotNone(Tail(xs))

\* --------------------------------------------------------------- the state

VARIABLES
  archive,                     \* the archive file: its entries, in order
  CHUNK_SIZE,                  \* line 15
  PROCESS_XML_JOBS_BATCH_SIZE, \* line 13
  MAX_PROCESSES,               \* line 14 (0 stands for None)
  pc,                          \* where the coordinator (process_archive) is
  raised,                      \* the exception that left process_archive ("" while none)
  done_chunks,                 \* history: the chunks walked, dispatched and merged (line 53)
  total,                       \* line 26
  chunks,                      \* line 30-32
  chunk_idx,                   \* the chunk of the loop of line 35 (0-based; -1 before the loop)
  stream,                      \* the walker's reader: index of the next entry it returns
  idx,                         \* the walker's idx (line 77)
  walked,                      \* history: the archive indexes the walker yielded for this chunk
  payloads,                    \* history: those of them whose payload the classifier read
  process_xml_jobs_args,       \* line 40, then line 48: each job tuple by the index of its entry
  unknown_folders,
  liste_suppression,
  counts, skipped,             \* line 22
  chunk_counts, chunk_skipped, \* what line 50 or 52 returned
  sync,                        \* the coordinator's process_xml_jobs_sync frame
  futures,                     \* per batch: "pending", "running", "done", "failed"
  work,                        \* per batch: the worker's process_xml_jobs_batch frame
  pool,                        \* process_xml_jobs_in_parallel's counts, skipped and collected futures
  db,                          \* per connection: its history of jobs (archive index) and "commit"s
  suppressed                   \* the lists suppress() was called with

vars == <<archive, CHUNK_SIZE, PROCESS_XML_JOBS_BATCH_SIZE, MAX_PROCESSES, pc, raised,
          done_chunks, total,
          chunks, chunk_idx, stream, idx, walked, payloads, process_xml_jobs_args,
          unknown_folders, liste_suppression, counts, skipped, chunk_counts,
          chunk_skipped, sync, futures, work, pool, db, suppressed>>

config == <<archive, CHUNK_SIZE, PROCESS_XML_JOBS_BATCH_SIZE, MAX_PROCESSES>>
walker == <<stream, idx, walked, payloads>>
accumulators == <<unknown_folders, liste_suppression>>
totals == <<counts, skipped>>
chunk_result == <<chunk_counts, chunk_skipped>>
parallel == <<futures, work, pool>>

\* The connection process_archive is given (its db argument).
CoordinatorDb == 1

\* All sequences over S of length 0..n.
SeqUpTo(S, n) == UNION {[1..k -> S] : k \in 0..n}

\* ProcessPoolExecutor(max_workers=MAX_PROCESSES): the number of worker processes.
PoolSize == IF MAX_PROCESSES = 0 THEN CpuCount ELSE MAX_PROCESSES

\* An archive of n documents that process, document i being doc1 or doc2 in turn,
\* with the entries of special in place of the documents at those positions.
Documents(n, special) ==
  [i \in 1..n |-> IF i \in DOMAIN special THEN special[i]
                  ELSE IF i % 2 = 1 THEN "doc1" ELSE "doc2"]

\* The archives big enough for the process pool: more than 10 batches of jobs.
\* For every batch size one whose documents all process; for the largest
\* also one of exactly 10 batches of jobs and one with a document that raises
\* (the last job of the second batch), after a suppression list.
BigArchives(batch_size) ==
  LET n == 10 * batch_size + 1
  IN {Documents(n + 1, <<"supp">>)} \cup
     (IF batch_size = MaxBatchSize
      THEN {Documents(n, <<"dir">>),
            Documents(n + 1, (1 :> "supp") @@ ((2 * batch_size + 1) :> "docX"))}
      ELSE {})

InitRun ==
  /\ pc = "count"
  /\ raised = ""
  /\ done_chunks = 0
  /\ total = 0
  /\ chunks = <<>>
  /\ chunk_idx = -1
  /\ stream = 0
  /\ idx = 0
  /\ walked = <<>>
  /\ payloads = <<>>
  /\ process_xml_jobs_args = <<>>
  /\ unknown_folders = EmptyDict
  /\ liste_suppression = <<>>
  /\ counts = EmptyDict
  /\ skipped = 0
  /\ chunk_counts = EmptyDict
  /\ chunk_skipped = 0
  /\ sync = [i |-> 0, counts |-> EmptyDict, skipped |-> 0]
  /\ futures = <<>>
  /\ work = <<>>
  /\ pool = [counts |-> EmptyDict, skipped |-> 0, collected |-> {}]
  /\ db = << <<>> >>
  /\ suppressed = <<>>

\* Short archives of any content, cut into chunks of every small size.
InitSmall ==
  /\ archive \in SeqUpTo(EntryIds, MaxTotal)
  /\ CHUNK_SIZE \in 1..MaxChunkSize
  /\ PROCESS_XML_JOBS_BATCH_SIZE = 1
  /\ MAX_PROCESSES \in {0, 1}

\* Archives of more than 10 batches of documents, in one chunk or two.
InitBig ==
  /\ PROCESS_XML_JOBS_BATCH_SIZE \in 1..MaxBatchSize
  /\ archive \in BigArchives(PROCESS_XML_JOBS_BATCH_SIZE)
  /\ CHUNK_SIZE = 10 * PROCESS_XML_JOBS_BATCH_SIZE + 1
  /\ MAX_PROCESSES \in {0, 1}

\* An archive of one directory, one entry under an unrecognized top-level
\* folder, one of a recognized family with a disallowed category and one valid
\* document, walked as one chunk.
ExampleArchive == <<"dir", "unk", "cat", "doc1">>

InitExample ==
  /\ archive = ExampleArchive
  /\ CHUNK_SIZE = Len(ExampleArchive)
  /\ PROCESS_XML_JOBS_BATCH_SIZE = 1
  /\ MAX_PROCESSES \in {0, 1}

Init == InitRun /\ (InitSmall \/ InitBig \/ InitExample)

\* db.commit() in a connection's history; a job is its archive index (>= 0).
Commit == -1

\* The job tuple made from the entry at archive index src: a tuple is never
\* changed once made, and the classifier makes it from the entry alone.
JobArgs(src) ==
  get_process_xml_job_args_for_entry(archive[src + 1], src, <<>>, EmptyDict).job

\* The batches of the chunk being dispatched (line 145).
batches == MakeBatches(process_xml_jobs_args, PROCESS_XML_JOBS_BATCH_SIZE)

\* The b-th of them if the slice of line 146 ran one job further.
BatchOneJobLonger(b) ==
  SubSeq(process_xml_jobs_args, (b - 1) * PROCESS_XML_JOBS_BATCH_SIZE + 1,
         Min(b * PROCESS_XML_JOBS_BATCH_SIZE + 1, Len(process_xml_jobs_args)))

\* The b-th of them (line 146): jobs[i:i + batch_size] for i = (b - 1) * batch_size.
Batch(b) ==
  SubSeq(process_xml_jobs_args, (b - 1) * PROCESS_XML_JOBS_BATCH_SIZE + 1,
         Min(b * PROCESS_XML_JOBS_BATCH_SIZE, Len(process_xml_jobs_args)))

\* The commit flag process_xml_jobs_batch passes to process_xml_jobs_sync (line 136).
BatchCommitsEachJobToo == TRUE

BatchCommitsEachJob == FALSE

\* process_xml_jobs_sync's loop turn with the commit of line 166 left out.
SyncLoopTurnWithoutCommit(f, job, commit, log) ==
  LET r == process_xml(job)
      m == merge_counts(r.counts, r.skipped, f.counts, f.skipped)
  IN [raised |-> r.raised,
      frame |-> IF r.raised THEN f
                ELSE [f EXCEPT !.i = @ + 1, !.counts = m.counts, !.skipped = m.skipped],
      log |-> Append(log, job.src)]

\* One turn of the loop of process_xml_jobs_sync (lines 162-166) on frame f
\* (i: jobs done, counts, skipped), with the connection's history log.
SyncLoopTurn(f, job, commit, log) ==
  LET r == process_xml(job)
      m == merge_counts(r.counts, r.skipped, f.counts, f.skipped)
      ran == Append(log, job.src)
  IN IF r.raised
     THEN [raised |-> TRUE, frame |-> f, log |-> ran]
     ELSE [raised |-> FALSE,
           frame |-> [f EXCEPT !.i = @ + 1, !.counts = m.counts, !.skipped = m.skipped],
           log |-> IF commit THEN Append(ran, Commit) ELSE ran]

\* ------------------------------------------------ process_archive, step by step
\*
\* In the actions a value computed once and read several times is bound by
\* \E x \in {value}: the same as LET x == value, but evaluated once.

\* Lines 25-26: the counting pass.
CountEntries ==
  /\ pc = "count"
  /\ total' = Len(archive)
  /\ pc' = "chunks"
  /\ UNCHANGED <<config, raised, done_chunks, chunks, chunk_idx, walker, process_xml_jobs_args, accumulators,
                 totals, chunk_result, sync, parallel, db, suppressed>>

\* Lines 29-32.
BuildChunks ==
  /\ pc = "chunks"
  /\ LET r == BuildChunkList(total, CHUNK_SIZE)
     IN /\ chunks' = r.chunks
        /\ pc' = IF r.raised THEN "failed" ELSE "loop"
        /\ raised' = IF r.raised THEN "IndexError: chunks[-1]" ELSE raised
  /\ UNCHANGED <<config, done_chunks, total, chunk_idx, walker, process_xml_jobs_args, accumulators,
                 totals, chunk_result, sync, parallel, db, suppressed>>

\* Lines 35-38 and 74-77: the next chunk of the loop; its walker opens the
\* archive afresh and skips to the chunk's start.
StartChunk ==
  /\ pc = "loop"
  /\ chunk_idx + 1 < Len(chunks)
  /\ chunk_idx' = chunk_idx + 1
  /\ LET chunk_start_idx == chunks[chunk_idx' + 1][1]
     IN /\ stream' = consume(0, chunk_start_idx, Len(archive))
        /\ idx' = chunk_start_idx
  /\ walked' = <<>>
  /\ payloads' = <<>>
  /\ process_xml_jobs_args' = <<>>
  /\ pc' = "walk"
  /\ UNCHANGED <<config, raised, done_chunks, total, chunks, accumulators, totals, chunk_result, sync,
                 parallel, db, suppressed>>

\* Lines 78-83 and 40-46: the walker yields one more entry, which is classified.
WalkEntry ==
  /\ pc = "walk"
  /\ stream < Len(archive)
  /\ ~PastChunkEnd(idx, chunks[chunk_idx + 1][2])
  /\ \E r \in {get_process_xml_job_args_for_entry(archive[stream + 1], stream,
                                                   liste_suppression, unknown_folders)} :
        /\ pc' = IF r.kind = "raise" THEN "failed" ELSE "walk"
        /\ raised' = IF r.kind = "raise" THEN "IndexError: parts" ELSE raised
        /\ liste_suppression' = r.liste_suppression
        /\ unknown_folders' = r.unknown_folders
        /\ process_xml_jobs_args' =
             IF r.kind = "raise" THEN process_xml_jobs_args
             ELSE Append(process_xml_jobs_args,
                         IF r.kind = "job" THEN r.job.src ELSE NoJobRef)
        /\ payloads' = IF r.read THEN Append(payloads, stream) ELSE payloads
  /\ stream' = stream + 1
  /\ idx' = idx + 1
  /\ walked' = Append(walked, stream)
  /\ UNCHANGED <<config, done_chunks, total, chunks, chunk_idx, totals, chunk_result, sync, parallel,
                 db, suppressed>>

\* Lines 78-81: the reader is exhausted, or the walker breaks out of its loop.
WalkEnd ==
  /\ pc = "walk"
  /\ (stream >= Len(archive) \/ PastChunkEnd(idx, chunks[chunk_idx + 1][2]))
  /\ pc' = "dispatch"
  /\ UNCHANGED <<config, raised, done_chunks, total, chunks, chunk_idx, walker, process_xml_jobs_args,
                 accumulators, totals, chunk_result, sync, parallel, db, suppressed>>

\* Lines 48-49 and 143-150: the jobs go to the pool, one future per batch.
DispatchParallel ==
  /\ pc = "dispatch"
  /\ LET jobs == NotNone(process_xml_jobs_args)
         nb == Len(MakeBatches(jobs, PROCESS_XML_JOBS_BATCH_SIZE))
     IN /\ UseProcessPool(MAX_PROCESSES, Len(jobs), PROCESS_XML_JOBS_BATCH_SIZE)
        /\ process_xml_jobs_args' = jobs
        /\ futures' = [b \in 1..nb |-> "pending"]
        /\ work' = [b \in 1..nb |-> [i |-> 0, counts |-> EmptyDict, skipped |-> 0, conn |-> 0]]
  /\ pool' = [counts |-> EmptyDict, skipped |-> 0, collected |-> {}]
  /\ pc' = "collect"
  /\ UNCHANGED <<config, raised, done_chunks, total, chunks, chunk_idx, walker, accumulators, totals,
                 chunk_result, sync, db, suppressed>>

\* Lines 48-52 and 160: the jobs run in the coordinator.
DispatchSync ==
  /\ pc = "dispatch"
  /\ LET jobs == NotNone(process_xml_jobs_args)
     IN /\ ~UseProcessPool(MAX_PROCESSES, Len(jobs), PROCESS_XML_JOBS_BATCH_SIZE)
        /\ process_xml_jobs_args' = jobs
  /\ sync' = [i |-> 0, counts |-> EmptyDict, skipped |-> 0]
  /\ pc' = "sync"
  /\ UNCHANGED <<config, raised, done_chunks, total, chunks, chunk_idx, walker, accumulators, totals,
                 chunk_result, parallel, db, suppressed>>

\* Lines 162-166 with commit=True, on the coordinator's connection.
SyncJob ==
  /\ pc = "sync"
  /\ sync.i < Len(process_xml_jobs_args)
  /\ \E job \in {JobArgs(process_xml_jobs_args[sync.i + 1])} :
     \E t \in {SyncLoopTurn(sync, job, TRUE, db[CoordinatorDb])} :
        /\ sync' = t.frame
        /\ db' = [db EXCEPT ![CoordinatorDb] = t.log]
        /\ pc' = IF t.raised THEN "failed" ELSE "sync"
        /\ raised' = IF t.raised THEN "process_xml" ELSE raised
  /\ UNCHANGED <<config, done_chunks, total, chunks, chunk_idx, walker, process_xml_jobs_args,
                 accumulators, totals, chunk_result, parallel, suppressed>>

\* Lines 52-53 if merging a chunk's statistics also emptied the suppression list.
SyncReturnEmptyingList ==
  /\ pc = "sync"
  /\ sync.i = Len(process_xml_jobs_args)
  /\ chunk_counts' = sync.counts
  /\ chunk_skipped' = sync.skipped
  /\ \E m \in {merge_counts(sync.counts, sync.skipped, counts, skipped)} :
       counts' = m.counts /\ skipped' = m.skipped
  /\ pc' = "loop"
  /\ done_chunks' = done_chunks + 1
  /\ liste_suppression' = <<>>
  /\ UNCHANGED <<config, raised, total, chunks, chunk_idx, walker, process_xml_jobs_args,
                 unknown_folders, sync, parallel, db, suppressed>>

\* Lines 167 and 52-53: process_xml_jobs_sync returns and the chunk is merged.
SyncReturn ==
  /\ pc = "sync"
  /\ sync.i = Len(process_xml_jobs_args)
  /\ chunk_counts' = sync.counts
  /\ chunk_skipped' = sync.skipped
  /\ \E m \in {merge_counts(sync.counts, sync.skipped, counts, skipped)} :
       counts' = m.counts /\ skipped' = m.skipped
  /\ pc' = "loop"
  /\ done_chunks' = done_chunks + 1
  /\ UNCHANGED <<config, raised, total, chunks, chunk_idx, walker, process_xml_jobs_args,
                 accumulators, sync, parallel, db, suppressed>>

\* ------------------------------------------------------------ the pool

Running == {b \in DOMAIN futures : futures[b] = "running"}
Pending == {b \in DOMAIN futures : futures[b] = "pending"}
Finished == {b \in DOMAIN futures : futures[b] \in {"done", "failed"}}

\* The pool is alive from the submissions to the end of the with block.
PoolAlive == pc \in {"collect", "shutdown"}

\* dila2sql.utils.connect_db(db_url): opens a connection, one that did not
\* exist before (conns: the connections opened so far).
connect_db(conns) == Len(conns) + 1

\* Lines 134-136: the connection a batch works on, conns being the connections
\* open before its connect_db: the one it opens, not the one the coordinator
\* had when the worker process was made.
BatchConnectionInherited(conns) == CoordinatorDb

BatchConnection(conns) == connect_db(conns)

\* Lines 133-135: a free worker takes the oldest pending batch and connects.
BatchStart(b) ==
  /\ PoolAlive
  /\ b \in Pending
  /\ \A c \in Pending : b <= c
  /\ Cardinality(Running) < PoolSize
  /\ futures' = [futures EXCEPT ![b] = "running"]
  /\ db' = Append(db, <<>>)
  /\ work' = [work EXCEPT ![b].conn = BatchConnection(db)]
  /\ UNCHANGED <<config, raised, done_chunks, pc, total, chunks, chunk_idx, walker, process_xml_jobs_args,
                 accumulators, totals, chunk_result, sync, pool, suppressed>>

\* Lines 136-137: what a raise of process_xml leaves of the batch's connection
\* history: the exception leaves process_xml_jobs_batch before its commit.
OnBatchRaiseCommit(log) == Append(log, Commit)

OnBatchRaise(log) == log

\* Line 136: one job of the batch, on the batch's own connection. A raise
\* ends the batch: its future holds the exception.
BatchJob(b) ==
  /\ PoolAlive
  /\ b \in Running
  /\ work[b].i < Len(Batch(b))
  /\ \E src \in {Batch(b)[work[b].i + 1]} :
     \E job \in {JobArgs(src)} :
     \E t \in {SyncLoopTurn([i |-> work[b].i, counts |-> work[b].counts,
                             skipped |-> work[b].skipped],
                            job, BatchCommitsEachJob, db[work[b].conn])} :
        /\ work' = [work EXCEPT ![b].i = t.frame.i, ![b].counts = t.frame.counts,
                                ![b].skipped = t.frame.skipped]
        /\ db' = [db EXCEPT ![work[b].conn] = IF t.raised THEN OnBatchRaise(t.log) ELSE t.log]
        /\ futures' = IF t.raised THEN [futures EXCEPT ![b] = "failed"] ELSE futures
  /\ UNCHANGED <<config, raised, done_chunks, pc, total, chunks, chunk_idx, walker, process_xml_jobs_args,
                 accumulators, totals, chunk_result, sync, pool, suppressed>>

\* Lines 137-138: the batch commits and returns its statistics.
BatchCommit(b) ==
  /\ PoolAlive
  /\ b \in Running
  /\ work[b].i = Len(Batch(b))
  /\ db' = [db EXCEPT ![work[b].conn] = Append(@, Commit)]
  /\ futures' = [futures EXCEPT ![b] = "done"]
  /\ UNCHANGED <<config, raised, done_chunks, pc, total, chunks, chunk_idx, walker, process_xml_jobs_args,
                 accumulators, totals, chunk_result, sync, work, pool, suppressed>>

\* Line 152: where future.result() raising leaves the coordinator: out of the
\* loop of line 151, into the exit of the with block.
AfterFailedResultKeepsCollecting == "collect"

AfterFailedResult == "shutdown"

\* Lines 151-153: as_completed hands over a finished future; its result is
\* merged, or its exception is raised out of the with block.
Collect(b) ==
  /\ pc = "collect"
  /\ b \in Finished \ pool.collected
  /\ IF futures[b] = "done"
     THEN \E m \in {merge_counts(work[b].counts, work[b].skipped, pool.counts, pool.skipped)} :
             /\ pool' = [counts |-> m.counts, skipped |-> m.skipped,
                         collected |-> pool.collected \cup {b}]
             /\ pc' = "collect"
     ELSE /\ pool' = [pool EXCEPT !.collected = @ \cup {b}]
          /\ pc' = AfterFailedResult
  /\ UNCHANGED <<config, raised, done_chunks, total, chunks, chunk_idx, walker, process_xml_jobs_args,
                 accumulators, totals, chunk_result, sync, futures, work, db, suppressed>>

\* Lines 155-156 and 50, 53: every future was collected; the chunk is merged.
ParallelReturn ==
  /\ pc = "collect"
  /\ pool.collected = DOMAIN futures
  /\ chunk_counts' = pool.counts
  /\ chunk_skipped' = pool.skipped
  /\ \E m \in {merge_counts(pool.counts, pool.skipped, counts, skipped)} :
       counts' = m.counts /\ skipped' = m.skipped
  /\ pc' = "loop"
  /\ done_chunks' = done_chunks + 1
  /\ UNCHANGED <<config, raised, total, chunks, chunk_idx, walker, process_xml_jobs_args,
                 accumulators, sync, parallel, db, suppressed>>

\* Line 149: when the exit of the with block lets the exception go on: at
\* once, or (the executor's shutdown waits) when every submitted batch is over.
PoolShutDownAtOnce == TRUE

PoolShutDown == Finished = DOMAIN futures

\* Line 149: the with block is left on an exception; the executor's shutdown
\* waits for every submitted batch, then the exception leaves process_archive.
Shutdown ==
  /\ pc = "shutdown"
  /\ PoolShutDown
  /\ pc' = "failed"
  /\ raised' = "process_xml"
  /\ UNCHANGED <<config, done_chunks, total, chunks, chunk_idx, walker, process_xml_jobs_args,
                 accumulators, totals, chunk_result, sync, parallel, db, suppressed>>

\* ------------------------------------------------------- after the chunks

\* Lines 35 and 55: the loop over the chunks has ended and there are
\* identifiers to suppress.
SuppressionDueInLoop == liste_suppression # <<>>

SuppressionDue == chunk_idx + 1 = Len(chunks) /\ liste_suppression # <<>>

\* Lines 55-58: the suppression pass, on a connection of its own.
Suppress ==
  /\ pc = "loop"
  /\ SuppressionDue
  /\ db' = Append(db, <<>>)
  /\ suppressed' = Append(suppressed, liste_suppression)
  /\ pc' = "summary"
  /\ UNCHANGED <<config, raised, done_chunks, total, chunks, chunk_idx, walker, process_xml_jobs_args,
                 accumulators, totals, chunk_result, sync, parallel>>

\* Line 55, with nothing to suppress.
NoSuppress ==
  /\ pc = "loop"
  /\ chunk_idx + 1 = Len(chunks)
  /\ liste_suppression = <<>>
  /\ pc' = "summary"
  /\ UNCHANGED <<config, raised, done_chunks, total, chunks, chunk_idx, walker, process_xml_jobs_args,
                 accumulators, totals, chunk_result, sync, parallel, db, suppressed>>

\* Lines 60-70: the summary is printed and process_archive returns.
Summary ==
  /\ pc = "summary"
  /\ pc' = "done"
  /\ UNCHANGED <<config, raised, done_chunks, total, chunks, chunk_idx, walker, process_xml_jobs_args,
                 accumulators, totals, chunk_result, sync, parallel, db, suppressed>>

Next ==
  \/ CountEntries
  \/ BuildChunks
  \/ StartChunk
  \/ WalkEntry
  \/ WalkEnd
  \/ DispatchParallel
  \/ DispatchSync
  \/ SyncJob
  \/ SyncReturn
  \/ \E b \in DOMAIN futures : BatchStart(b)
  \/ \E b \in DOMAIN futures : BatchJob(b)
  \/ \E b \in DOMAIN futures : BatchCommit(b)
  \/ \E b \in DOMAIN futures : Collect(b)
  \/ ParallelReturn
  \/ Shutdown
  \/ Suppress
  \/ NoSuppress
  \/ Summary

Spec == Init /\ [][Next]_vars

\* The steps of the coordinator: process_archive and what it calls in its own
\* process.
Coordinator ==
  \/ CountEntries \/ BuildChunks \/ StartChunk \/ WalkEntry \/ WalkEnd
  \/ DispatchParallel \/ DispatchSync \/ SyncJob \/ SyncReturn
  \/ (\E b \in DOMAIN futures : Collect(b)) \/ ParallelReturn \/ Shutdown
  \/ Suppress \/ NoSuppress \/ Summary

\* The steps of the pool's worker processes.
Workers ==
  \E b \in DOMAIN futures : BatchStart(b) \/ BatchJob(b) \/ BatchCommit(b)

\* The run under a scheduler that lets the coordinator and the pool's workers
\* run whenever they can: every call made returns (process_xml, commit,
\* suppress, connect_db), and no process is starved.
Fairness == WF_vars(Coordinator) /\ WF_vars(Workers)

\* The archives of the fair runs with more than 10 batches: one whose
\* documents all process and one whose last job of the second batch raises.
InitFairBig ==
  /\ PROCESS_XML_JOBS_BATCH_SIZE = FairBatchSize
  /\ archive \in {Documents(10 * FairBatchSize + 2, <<"supp">>),
                   Documents(10 * FairBatchSize + 2,
                             (1 :> "supp") @@ ((2 * FairBatchSize + 1) :> "docX"))}
  /\ CHUNK_SIZE = 10 * FairBatchSize + 1
  /\ MAX_PROCESSES = 0

FairInit == InitRun /\ (InitSmall \/ InitFairBig \/ InitExample)

FairSpec == FairInit /\ [][Next]_vars /\ Fairness

\* ----------------------------------------------------------------- claims

\* The exit states of process_archive: returned, or left by an exception.
Returned == pc = "done"
Failed == pc = "failed"

\* The number of times x occurs in sequence h.
Occurrences(h, x) == Cardinality({k \in 1..Len(h) : h[k] = x})

RECURSIVE SumOver(_, _)
SumOver(f, S) ==
  IF S = {} THEN 0
  ELSE LET x == CHOOSE y \in S : TRUE IN f[x] + SumOver(f, S \ {x})

\* The number of process_xml calls made, on any connection, for the job of the
\* entry at archive index i.
Calls(i) == SumOver([c \in DOMAIN db |-> Occurrences(db[c], i)], DOMAIN db)

\* Whether the classifier makes a job of archive entry e.
IsValidJob(e) == get_process_xml_job_args_for_entry(e, 0, <<>>, EmptyDict).kind = "job"

\* ch is a list of [start, end) ranges that are contiguous, do not overlap and
\* cover [0, n): each of size c but the last, of size n mod c when that is not 0.
IsChunking(ch, n, c) ==
  /\ (n = 0) = (ch = <<>>)
  /\ n > 0 => ch[1][1] = 0 /\ ch[Len(ch)][2] = n
  /\ \A k \in 1..Len(ch) : ch[k][1] < ch[k][2]
  /\ \A k \in 1..(Len(ch) - 1) : ch[k][2] = ch[k + 1][1] /\ ch[k][2] - ch[k][1] = c
  /\ n > 0 => ch[Len(ch)][2] - ch[Len(ch)][1] = (IF n % c # 0 THEN n % c ELSE c)

\* C1: for every total T >= 0 and chunk size C >= 1, T < C and T = 0 included,
\* process_archive builds a chunk list that is a contiguous, non-overlapping
\* cover of [0, T), every chunk of size C but the last (T mod C when nonzero).
C1_ChunkListCoversArchive ==
  pc \notin {"count", "chunks"} =>
    /\ raised # "IndexError: chunks[-1]"
    /\ IsChunking(chunks, total, CHUNK_SIZE)

\* The archive indexes lo, lo + 1, ..., hi - 1, in order.
Range(lo, hi) == [k \in 1..(IF hi > lo THEN hi - lo ELSE 0) |-> lo + k - 1]

\* C2: the walker of a chunk [start, end) yields exactly the entries of index i
\* with start <= i < min(end, N), in archive order and each once; never the
\* entry at index end.
C2_WalkerYieldsHalfOpenRange ==
  pc = "dispatch" =>
    walked = Range(chunks[chunk_idx + 1][1], Min(chunks[chunk_idx + 1][2], Len(archive)))

\* C3: over a complete run in which nothing fails, process_xml is called
\* exactly once for each valid-job entry of the archive and never for another.
C3_EachJobProcessedOnce ==
  Returned =>
    \A i \in 0..(Len(archive) - 1) :
      Calls(i) = (IF IsValidJob(archive[i + 1]) THEN 1 ELSE 0)

\* The sums, over every process_xml call made in the run, of what the call
\* returned: the count of kind k, and the skipped flag.
RECURSIVE RunCount(_, _)
RunCount(h, k) ==
  IF h = <<>> THEN 0
  ELSE (IF Head(h) = Commit \/ process_xml(JobArgs(Head(h))).raised THEN 0
        ELSE Get(process_xml(JobArgs(Head(h))).counts, k)) + RunCount(Tail(h), k)

RECURSIVE RunSkipped(_)
RunSkipped(h) ==
  IF h = <<>> THEN 0
  ELSE (IF Head(h) = Commit \/ process_xml(JobArgs(Head(h))).raised THEN 0
        ELSE process_xml(JobArgs(Head(h))).skipped) + RunSkipped(Tail(h))

Kinds == {"add", "update"}

\* C4: merging the statistics of sub-runs with merge_counts gives their sum:
\* once the chunks of a run are merged, each per-kind count of the total is the
\* sum of the jobs' counts of that kind and the total's skipped is the sum of
\* the jobs' skipped.
C4_MergedStatisticsAreSums ==
  Returned =>
    /\ \A k \in Kinds :
         Get(counts, k) = SumOver([c \in DOMAIN db |-> RunCount(db[c], k)], DOMAIN db)
    /\ skipped = SumOver([c \in DOMAIN db |-> RunSkipped(db[c])], DOMAIN db)

\* The counts part of C4 alone, which the code keeps.
CountsAreSums ==
  Returned =>
    \A k \in Kinds :
      Get(counts, k) = SumOver([c \in DOMAIN db |-> RunCount(db[c], k)], DOMAIN db)

\* What process_xml_jobs_sync returns for jobs merged one at a time, in order
\* (no job raising): its frame after the jobs from the i-th on.
RECURSIVE SyncFold(_, _, _)
SyncFold(jobs, i, f) ==
  IF i > Len(jobs) THEN f
  ELSE SyncFold(jobs, i + 1, SyncLoopTurn(f, JobArgs(jobs[i]), FALSE, <<>>).frame)

SyncResult(jobs) == SyncFold(jobs, 1, [i |-> 0, counts |-> EmptyDict, skipped |-> 0])

\* C5: whatever the order in which the batches of a chunk complete and are
\* merged, and whatever the batch size, what process_xml_jobs_in_parallel
\* returns is what process_xml_jobs_sync returns for the same jobs.
C5_ParallelEqualsSync ==
  (pc = "collect" /\ pool.collected = DOMAIN futures) =>
    /\ pool.counts = SyncResult(process_xml_jobs_args).counts
    /\ pool.skipped = SyncResult(process_xml_jobs_args).skipped

\* C5's case: every batch of a parallel chunk has been merged, the last one
\* merged not being the last batch of the list.
C5_Witness ==
  /\ pc = "collect"
  /\ pool.collected = DOMAIN futures
  /\ Len(futures) > 10
  /\ Get(pool.counts, "add") > 0

\* Whether archive entry e is a suppression-list file, and its identifiers.
IsSuppressionList(e) == Entry(e).pathname[Len(Entry(e).pathname)] = SuppressionListName(base)

Identifiers(e) == split(decode_ascii(Entry(e).blocks))

\* x is an element of sequence h.
InSeq(x, h) == \E k \in 1..Len(h) : h[k] = x

RECURSIVE AllIdentifiers(_)
AllIdentifiers(arch) ==
  IF arch = <<>> THEN <<>>
  ELSE (IF IsSuppressionList(Head(arch)) THEN Identifiers(Head(arch)) ELSE <<>>)
       \o AllIdentifiers(Tail(arch))

IsPrefix(s, t) == Len(s) <= Len(t) /\ SubSeq(t, 1, Len(s)) = s

\* C7: the suppression list only grows by appending, and the list handed to
\* suppress is the identifiers of every suppression-list entry of the archive,
\* in archive order, each entry counted once.
C7_SuppressionListIsArchiveOrder ==
  /\ [][IsPrefix(liste_suppression, liste_suppression')]_vars
  /\ [](suppressed # <<>> => suppressed[1] = AllIdentifiers(archive))

\* The part of C7 the code keeps: the list only grows by appending.
SuppressionListAppendOnly == [][IsPrefix(liste_suppression, liste_suppression')]_vars

\* C8: a chunk's jobs run sequentially when MAX_PROCESSES is 1 or there are at
\* most 10 * batch_size of them, and in the pool otherwise.
C8_DispatchRule ==
  LET n == Len(process_xml_jobs_args)
      sequential == MAX_PROCESSES = 1 \/ n <= 10 * PROCESS_XML_JOBS_BATCH_SIZE
  IN /\ pc = "sync" => sequential
     /\ pc \in {"collect", "shutdown"} => ~sequential

\* C8's case: exactly 10 * batch_size + 1 jobs were sent to the pool.
C8_Witness ==
  /\ pc = "collect"
  /\ Len(process_xml_jobs_args) = 10 * PROCESS_XML_JOBS_BATCH_SIZE + 1

\* The history of the connection batch b opened.
BatchHistory(b) == db[work[b].conn]

\* C9: a batch that runs without failure commits its connection exactly once,
\* after its last job; there is no commit between two of its jobs.
C9_BatchCommitsOnceAtEnd ==
  PoolAlive =>
    \A b \in DOMAIN futures :
      /\ futures[b] = "running" => Occurrences(BatchHistory(b), Commit) = 0
      /\ futures[b] = "done" => BatchHistory(b) = Batch(b) \o <<Commit>>

\* C9's case: a batch of two jobs has committed and returned.
C9_Witness ==
  /\ PoolAlive
  /\ \E b \in DOMAIN futures : futures[b] = "done" /\ Len(Batch(b)) >= 2

\* The jobs of the batches of S, in the order of the list.
RECURSIVE JobsOf(_, _)
JobsOf(S, b) ==
  IF b > Len(futures) THEN <<>>
  ELSE (IF b \in S THEN Batch(b) ELSE <<>>) \o JobsOf(S, b + 1)

\* C10: when process_xml raises on a job of a batch, the batch's connection is
\* never committed, the batch gives no statistics (the merged statistics are
\* those of the other collected batches), and the failure is raised in the
\* coordinator when it collects the batch.
C10_FailedBatchNeverCommits ==
  (PoolAlive \/ Failed) =>
    \A b \in DOMAIN futures :
      futures[b] = "failed" =>
        /\ Occurrences(BatchHistory(b), Commit) = 0
        /\ pool.counts = SyncResult(JobsOf(pool.collected \ {b}, 1)).counts
        /\ b \in pool.collected => pc \in {"shutdown", "failed"}
        /\ (b \in pool.collected /\ Failed) => raised = "process_xml"

\* C10's case: a batch failed after processing a job, and its failure was
\* collected and has left process_archive.
C10_Witness ==
  /\ Failed
  /\ \E b \in DOMAIN futures :
       futures[b] = "failed" /\ work[b].i >= 1 /\ b \in pool.collected

\* A failed batch's result has been collected: future.result() has raised in
\* the coordinator (line 152).
FailureCollected == \E b \in pool.collected : futures[b] = "failed"

\* C11: once the coordinator has collected a failed batch result, no further
\* batch result of the chunk is merged into the statistics (those of the pool
\* call, of the chunk and of the run alike), no later chunk is walked or
\* dispatched, suppress is not called, and the run can only end as failed:
\* the coordinator waits for the pool, then the failure leaves process_archive.
C11_FailedCollectionAborts ==
  /\ [][FailureCollected =>
         /\ pool' = pool
         /\ <<counts, skipped, chunk_counts, chunk_skipped>>'
              = <<counts, skipped, chunk_counts, chunk_skipped>>
         /\ <<chunk_idx, walked, process_xml_jobs_args, done_chunks>>'
              = <<chunk_idx, walked, process_xml_jobs_args, done_chunks>>
         /\ suppressed' = suppressed
         /\ pc' \in {"shutdown", "failed"}]_vars
  /\ [](FailureCollected =>
         /\ suppressed = <<>>
         /\ pc \in {"shutdown", "failed"}
         /\ Failed => raised = "process_xml")

\* The eventuality of C11, for fair runs: a collected failure ends the run.
FailureEndsRun == FailureCollected ~> Failed

\* C11's case: a failed batch was collected while batches of the chunk that
\* ended well were still uncollected, in a chunk that is not the last and
\* with identifiers to suppress; the run has ended.
C11_Witness ==
  /\ Failed
  /\ FailureCollected
  /\ \E b \in DOMAIN futures : futures[b] = "done" /\ b \notin pool.collected
  /\ chunk_idx + 1 < Len(chunks)
  /\ liste_suppression # <<>>

\* The connection history that n turns of process_xml_jobs_sync's loop over
\* jobs leave when nothing raises: each job in order, each followed by a
\* commit when commit is requested.
RECURSIVE SyncHistory(_, _, _)
SyncHistory(jobs, n, commit) ==
  IF n = 0 THEN <<>>
  ELSE SyncHistory(jobs, n - 1, commit) \o
       (IF commit THEN <<jobs[n], Commit>> ELSE <<jobs[n]>>)

\* s is the end of sequence h.
IsSuffix(s, h) == Len(s) <= Len(h) /\ SubSeq(h, Len(h) - Len(s) + 1, Len(h)) = s

\* The run has failed inside the coordinator's call of process_xml_jobs_sync.
SyncFailed ==
  /\ Failed
  /\ raised = "process_xml"
  /\ ~UseProcessPool(MAX_PROCESSES, Len(process_xml_jobs_args), PROCESS_XML_JOBS_BATCH_SIZE)

\* C12: process_xml_jobs_sync processes its jobs in input order on the one
\* connection it is given. With commit requested (the coordinator's call) the
\* connection's history of the call is job 1, commit, job 2, commit, ...: N
\* jobs give N commits, and a failure on job k leaves jobs 1..k-1 committed,
\* job k uncommitted and nothing after it. With commit not requested (a
\* worker batch's call) it is the jobs alone, in order, without any commit.
C12_SyncInOrderCommitPerJob ==
  /\ pc = "sync" =>
       IsSuffix(SyncHistory(process_xml_jobs_args, sync.i, TRUE), db[CoordinatorDb])
  /\ SyncFailed =>
       /\ sync.i < Len(process_xml_jobs_args)
       /\ IsSuffix(SyncHistory(process_xml_jobs_args, sync.i, TRUE)
                   \o <<process_xml_jobs_args[sync.i + 1]>>, db[CoordinatorDb])
  /\ PoolAlive =>
       \A b \in DOMAIN futures :
         /\ futures[b] = "running" => BatchHistory(b) = SyncHistory(Batch(b), work[b].i, FALSE)
         /\ futures[b] = "failed" =>
              BatchHistory(b) = SyncHistory(Batch(b), work[b].i + 1, FALSE)

\* C12's case: the coordinator's call has failed on its fourth job of more,
\* three jobs run and committed before it.
C12_Witness ==
  /\ SyncFailed
  /\ sync.i = 3
  /\ Len(process_xml_jobs_args) > 4

\* Jobs of the chunk of the loop (chunk_idx) are running or their results are
\* not all collected: the coordinator is inside line 50 or line 52.
ChunkJobsPending ==
  \/ pc = "sync" /\ sync.i < Len(process_xml_jobs_args)
  \/ pc \in {"collect", "shutdown"} /\ pool.collected # DOMAIN futures

\* The archive indexes of the entries whose job has started, on any connection.
StartedJobs == UNION {{db[c][k] : k \in 1..Len(db[c])} : c \in DOMAIN db} \ {Commit}

\* The archive indexes the walker has yielded for the chunk of the loop.
WalkedEntries == {walked[k] : k \in 1..Len(walked)}

\* C13: while a job or batch of chunk k is running or uncollected, no entry of
\* chunk k + 1 (an entry of index chunk_end_idx of chunk k, or more) has been
\* walked or classified, and no job of such an entry has started.
C13_ChunksNeverOverlap ==
  ChunkJobsPending =>
    /\ \A i \in WalkedEntries : i < chunks[chunk_idx + 1][2]
    /\ \A i \in StartedJobs : i < chunks[chunk_idx + 1][2]

\* The jobs of the chunk of the loop are over: the sequential call has run
\* them all, or every batch has ended well and was collected.
ChunkJobsOver ==
  IF UseProcessPool(MAX_PROCESSES, Len(process_xml_jobs_args), PROCESS_XML_JOBS_BATCH_SIZE)
  THEN \A b \in DOMAIN futures : futures[b] = "done" /\ b \in pool.collected
  ELSE sync.i = Len(process_xml_jobs_args)

\* The part of C13 the code keeps: the coordinator starts the walk of the
\* next chunk only when the jobs of the chunk before are over, and no worker
\* runs while the coordinator walks, classifies or runs jobs itself.
ChunkPhasesNeverOverlap ==
  /\ [][chunk_idx' # chunk_idx => (chunk_idx >= 0 => pc = "loop" /\ ChunkJobsOver)]_vars
  /\ [](pc \in {"loop", "walk", "dispatch", "sync"} =>
         /\ Running = {} /\ Pending = {}
         /\ pool.collected = DOMAIN futures)

\* C14: the suppression list and the unknown-folder tally change only in the
\* coordinator's classification step, while a chunk's entries are walked:
\* every step that runs a job (in the coordinator or in a worker batch),
\* starts or ends a batch, or merges a result leaves both unchanged.
C14_AccumulatorsChangeOnlyWhileWalking ==
  [][/\ accumulators' # accumulators => pc = "walk" /\ walked' # walked
     /\ (\/ db' # db \/ sync' # sync \/ parallel' # parallel
         \/ totals' # totals \/ chunk_result' # chunk_result)
          => accumulators' = accumulators]_vars

\* C14's case: with identifiers in the suppression list, a worker batch is
\* running a job while the result of another has been merged.
C14_Witness ==
  /\ pc = "collect"
  /\ liste_suppression # <<>>
  /\ pool.collected # {}
  /\ \E b \in Running : work[b].i >= 1

\* The batches of the pool call in progress that have opened a connection.
Connected == {b \in DOMAIN futures : PoolAlive /\ work[b].conn # 0}

\* C15: no connection is shared between execution contexts. Every worker
\* batch has a connection of its own, which is not the coordinator's; a
\* connection's history changes only by a step of the batch that opened it,
\* which changes no other, or, for the coordinator's, by a step of the
\* sequential path; and a batch's connection holds nothing but its own jobs
\* and its commit.
C15_NoSharedConnection ==
  /\ [](\A b \in Connected :
          /\ work[b].conn # CoordinatorDb
          /\ work[b].conn \in DOMAIN db
          /\ \A c \in Connected : c # b => work[c].conn # work[b].conn
          /\ \A k \in 1..Len(BatchHistory(b)) :
               BatchHistory(b)[k] = Commit \/ InSeq(BatchHistory(b)[k], Batch(b)))
  /\ [][\A c \in DOMAIN db :
          db'[c] # db[c] =>
            IF c = CoordinatorDb
            THEN pc = "sync" /\ \A d \in DOMAIN db \ {c} : db'[d] = db[d]
            ELSE /\ PoolAlive
                 /\ \E b \in Running :
                      /\ work[b].conn = c
                      /\ work'[b] # work[b] \/ futures'[b] # futures[b]
                 /\ \A d \in DOMAIN db \ {c} : db'[d] = db[d]]_vars

\* C15's case: two batches run at the same time, each with a job done on its
\* connection.
C15_Witness ==
  /\ PoolAlive
  /\ \E b, c \in Running : b # c /\ work[b].i >= 1 /\ work[c].i >= 1

\* The parts of entry e's path as the classifier tests them (lines 98-100).
Parts(e) ==
  LET path == Entry(e).pathname
  IN IF Len(path) >= 2 /\ path[2] = Lower(base) THEN DropFirst(path, 1) ELSE path

IsDirectory(e) == Entry(e).pathname[Len(Entry(e).pathname)] = ""

Families == {"legi", "jorf", "kali"}

\* e is neither a directory nor a suppression list, and its top-level segment
\* is not a recognized family.
UnknownTopLevel(e) ==
  ~IsDirectory(e) /\ ~IsSuppressionList(e) /\ Parts(e)[1] \notin Families

\* e is neither, its family is recognized and its third segment fails the
\* family's allow-list.
DisallowedCategory(e) ==
  /\ ~IsDirectory(e) /\ ~IsSuppressionList(e)
  /\ Parts(e)[1] \in Families /\ UnknownFolder(Parts(e))

\* The step is the classification of one more entry of the chunk.
ClassifiesEntry == Len(walked') = Len(walked) + 1

\* The classification of this step produced no job and left the suppression
\* list as it was.
NoJobNoIdentifier ==
  /\ process_xml_jobs_args' = Append(process_xml_jobs_args, NoJobRef)
  /\ liste_suppression' = liste_suppression

\* C16: classifying an entry under an unrecognized top-level folder adds 1 to
\* the tally under that folder's name; one of a recognized family with a
\* disallowed category adds 1 under the category's name; both produce no job
\* and leave the suppression list unchanged; a directory changes nothing. So
\* the example archive gives the tally {unrecognized folder: 1, disallowed
\* category: 1}, 1 job and no suppression identifier.
C16_TallyUnderOffendingSegment ==
  /\ [][ClassifiesEntry =>
         LET e == archive[stream + 1]
         IN /\ IsDirectory(e) =>
                 NoJobNoIdentifier /\ unknown_folders' = unknown_folders
            /\ UnknownTopLevel(e) =>
                 /\ NoJobNoIdentifier
                 /\ unknown_folders' = DictAdd(unknown_folders, Parts(e)[1], 1)
            /\ DisallowedCategory(e) =>
                 /\ NoJobNoIdentifier
                 /\ unknown_folders' = DictAdd(unknown_folders, Parts(e)[3], 1)]_vars
  /\ []((archive = ExampleArchive /\ pc = "dispatch") =>
         /\ unknown_folders = (Parts("unk")[1] :> 1) @@ ("autre" :> 1)
         /\ Len(NotNone(process_xml_jobs_args)) = 1
         /\ liste_suppression = <<>>)

\* What the code does instead: both cases are tallied under the third segment
\* of the path (line 108); the rest of C16 is kept.
TallyUnderThirdSegment ==
  /\ [][ClassifiesEntry =>
         LET e == archive[stream + 1]
         IN /\ IsDirectory(e) =>
                 NoJobNoIdentifier /\ unknown_folders' = unknown_folders
            /\ (UnknownTopLevel(e) \/ DisallowedCategory(e)) =>
                 /\ NoJobNoIdentifier
                 /\ unknown_folders' = DictAdd(unknown_folders, Parts(e)[3], 1)]_vars
  /\ []((archive = ExampleArchive /\ pc = "dispatch") =>
         /\ unknown_folders = ("global" :> 1) @@ ("autre" :> 1)
         /\ Len(NotNone(process_xml_jobs_args)) = 1
         /\ liste_suppression = <<>>)

\* C17: in process_xml_jobs_in_parallel the batches are a partition of the
\* chunk's job list: concatenated in order they give the list back, every
\* batch but the last has batch_size jobs, the last has between 1 and
\* batch_size, and each batch is submitted once: there is one future per
\* batch, and a batch that a worker has taken is never taken again.
C17_BatchesPartitionJobs ==
  /\ [](PoolAlive =>
         /\ Len(futures) = Len(batches)
         /\ JobsOf(DOMAIN futures, 1) = process_xml_jobs_args
         /\ \A b \in DOMAIN futures :
              /\ Batch(b) = batches[b]
              /\ b < Len(futures) => Len(Batch(b)) = PROCESS_XML_JOBS_BATCH_SIZE
              /\ Len(Batch(b)) >= 1 /\ Len(Batch(b)) <= PROCESS_XML_JOBS_BATCH_SIZE)
  /\ [][(PoolAlive /\ PoolAlive') =>
          /\ DOMAIN futures' = DOMAIN futures
          /\ \A b \in DOMAIN futures : futures[b] # "pending" => futures'[b] # "pending"]_vars

\* C17's case: batches of 2 jobs, the last batch holding the one job left
\* over, and every batch taken by a worker.
C17_Witness ==
  /\ PoolAlive
  /\ PROCESS_XML_JOBS_BATCH_SIZE = 2
  /\ Len(Batch(Len(futures))) = 1
  /\ Pending = {}

\* e passes the family and category checks and the table mapping gives no
\* table for it.
NoTable(e) ==
  /\ ~IsDirectory(e) /\ ~IsSuppressionList(e)
  /\ Len(Parts(e)) >= 3
  /\ ~UnknownFolder(Parts(e))
  /\ get_table(Parts(e)) = None

\* The text identifier of e: its last path segment without the 4-character
\* suffix.
TextId(e) == StripSuffix4(Entry(e).pathname[Len(Entry(e).pathname)])

\* C18: when an entry passes the family and category checks but the table
\* mapping returns no table, the classifier adds exactly 1 to the tally under
\* the entry's text identifier, produces no job and does not read the entry's
\* payload (and the run goes on).
C18_NoTableTalliedUnderTextId ==
  [][(ClassifiesEntry /\ NoTable(archive[stream + 1])) =>
       /\ unknown_folders' = DictAdd(unknown_folders, TextId(archive[stream + 1]), 1)
       /\ NoJobNoIdentifier
       /\ payloads' = payloads
       /\ raised' = raised]_vars

\* The part of C18 the code keeps: the same for the entries whose path has the
\* 12 segments that line 112 reads before the table is tested.
NoTableTalliedWhenPathIsLong ==
  [][(ClassifiesEntry /\ NoTable(archive[stream + 1])
        /\ Len(Parts(archive[stream + 1])) >= 12) =>
       /\ unknown_folders' = DictAdd(unknown_folders, TextId(archive[stream + 1]), 1)
       /\ NoJobNoIdentifier
       /\ payloads' = payloads
       /\ raised' = raised]_vars

\* The long-path case of C18 happens: such an entry was tallied.
NoTableWitness == Get(unknown_folders, "LEGIARTI4") >= 1

\* process_archive has returned after walking, dispatching and merging every
\* chunk, collecting every batch it submitted and applying the suppression
\* list when there is one.
RunFinished ==
  /\ Returned
  /\ chunk_idx + 1 = Len(chunks) /\ done_chunks = Len(chunks)
  /\ pool.collected = DOMAIN futures
  /\ liste_suppression # <<>> => suppressed = <<liste_suppression>>

\* The coordinator is waiting for the pool.
WaitingForPool == pc \in {"collect", "shutdown"}

\* C19: for every finite archive, in a fair run in which every call of the
\* processor returns (none raises), process_archive eventually finishes: it
\* reaches its summary with every chunk done, every batch collected and the
\* suppression applied; and the coordinator never waits forever on the pool.
C19_RunEventuallyFinishes ==
  /\ [](raised # "process_xml") => <>RunFinished
  /\ WaitingForPool ~> ~WaitingForPool

\* The part of C19 the code keeps: a run that nothing fails finishes, and
\* the coordinator never waits forever on the pool.
FinishesUnlessItFails ==
  /\ [](raised = "") => <>RunFinished
  /\ WaitingForPool ~> ~WaitingForPool

\* No job of batch b makes the processor raise.
BatchRunsWell(b) ==
  \A k \in 1..Len(Batch(b)) : ~process_xml(JobArgs(Batch(b)[k])).raised

\* The batches that committed and whose statistics were not merged.
CommittedUnmerged ==
  {b \in DOMAIN futures : futures[b] = "done" /\ b \notin pool.collected}

\* C20: a failed batch does not stop the others. When the failure has left
\* process_xml_jobs_in_parallel every batch submitted for the chunk has been
\* executed, to its end and its commit if none of its jobs fails, whether or
\* not its statistics were merged; and until then the batches left go on.
C20_OtherBatchesStillCommit ==
  /\ (Failed /\ FailureCollected) =>
       \A b \in DOMAIN futures :
         /\ futures[b] \in {"done", "failed"}
         /\ BatchRunsWell(b) =>
              futures[b] = "done" /\ BatchHistory(b) = Batch(b) \o <<Commit>>
         /\ ~BatchRunsWell(b) =>
              futures[b] = "failed" /\ Occurrences(BatchHistory(b), Commit) = 0
  /\ (pc = "shutdown" /\ ~PoolShutDown) => ENABLED Workers

\* C20's case: the run has failed on a batch, leaving committed both batches
\* whose statistics were merged and batches (some after the failed one in the
\* list) whose statistics were not.
C20_Witness ==
  /\ Failed
  /\ FailureCollected
  /\ \E b \in pool.collected : futures[b] = "done"
  /\ \E b \in CommittedUnmerged : \E c \in pool.collected : futures[c] = "failed" /\ b > c
  /\ Cardinality(CommittedUnmerged) >= 2

\* Every run ends: process_archive returns or an exception leaves it.
Terminates == <>(Returned \/ Failed)

====
